---------------------------- MODULE Spec2Model ----------------------------
(***************************************************************************)
(* Model of the platypus-lang front end: the Scanner (src/src/scanner.rs)  *)
(* and the recursive-descent expression Parser (src/src/parser.rs) with    *)
(* the AST printer (src/src/expr.rs).                                      *)
(*                                                                         *)
(* Source text is a sequence of one-character strings (ASCII only), so a   *)
(* byte index and a character index coincide.  Rust indices are 0-based:   *)
(* source byte i of the program is source[i + 1] here.  A lexeme is a      *)
(* TLA+ string, built by concatenating the characters of a source slice.   *)
(***************************************************************************)
EXTENDS Naturals, Sequences, FiniteSets, TLC

VARIABLES
    source,     \* Scanner.source
    tokens,     \* Scanner.tokens
    start,      \* Scanner.start
    current,    \* Scanner.current
    line,       \* Scanner.line
    errors,     \* the local `errors` vector of scan_tokens
    pc,         \* "scan": in the loop of scan_tokens; "done": returned;
                \* "panic": the thread panicked; "idle": no scanner
    result,     \* the value returned by scan_tokens
    p_tokens,   \* Parser.tokens
    p_current,  \* Parser.current
    p_pc,       \* "ready": constructed; "done": parse returned;
                \* "printed": its tree was printed; "panic": the
                \* thread panicked; "idle": no parser
    p_result,   \* the value returned by Parser::parse
    p_printed   \* the string that Expr::to_string made of the parsed tree

scanner_vars == <<source, tokens, start, current, line, errors, pc, result>>
parser_vars == <<p_tokens, p_current, p_pc, p_result, p_printed>>
vars == <<source, tokens, start, current, line, errors, pc, result,
          p_tokens, p_current, p_pc, p_result, p_printed>>

(***************************************************************************)
(* Bounds of the model.                                                    *)
(***************************************************************************)
MaxLen == 4

(***************************************************************************)
(* Characters.                                                             *)
(***************************************************************************)
\* The '\0' that Scanner::peek returns at the end of input: a value that is
\* no character of any source text of the model.
NUL == "NUL"

Digits == {"0", "1", "2", "3", "4", "5", "6", "7", "8", "9"}

Lower == {"a", "b", "c", "d", "e", "f", "g", "h", "i", "j", "k", "l", "m",
          "n", "o", "p", "q", "r", "s", "t", "u", "v", "w", "x", "y", "z"}

Upper == {"A", "B", "C", "D", "E", "F", "G", "H", "I", "J", "K", "L", "M",
          "N", "O", "P", "Q", "R", "S", "T", "U", "V", "W", "X", "Y", "Z"}

is_alpha(ch) == ch \in Lower \/ ch \in Upper \/ ch = "_"

is_digit(ch) == ch \in Digits

is_alpha_numeric(ch) == is_digit(ch) \/ is_alpha(ch)

\* String::from(&source[a..b]) for a sequence of characters.
RECURSIVE Join(_)
Join(s) == IF s = <<>> THEN "" ELSE Head(s) \o Join(Tail(s))

(***************************************************************************)
(* Tokens and literal values.                                              *)
(***************************************************************************)
None == [tag |-> "None"]

\* Some(FloatValue(v)): v is kept exactly, as its integer part and its
\* fractional digits without trailing zeros.
FloatValue(ip, fp) == [tag |-> "FloatValue", int |-> ip, frac |-> fp]

IntegerValue(n) == [tag |-> "IntegerValue", int |-> n]

StringValue(s) == [tag |-> "StringValue", str |-> s]

Token(tt, lx, lit, ln) ==
    [token_type |-> tt, lexeme |-> lx, literal |-> lit, line_number |-> ln]

EofToken == Token("Eof", "", None, 0)

keywords ==
    [x \in {"and", "&&", "or", "||", "true", "false", "null", "if", "else",
            "return", "print", "while", "for", "let", "this", "extends",
            "fn", "class"} |->
        CASE x \in {"and", "&&"} -> "And"
          [] x \in {"or", "||"} -> "Or"
          [] x = "true" -> "True"
          [] x = "false" -> "False"
          [] x = "null" -> "Null"
          [] x = "if" -> "If"
          [] x = "else" -> "Else"
          [] x = "return" -> "Return"
          [] x = "print" -> "Print"
          [] x = "while" -> "While"
          [] x = "for" -> "For"
          [] x = "let" -> "Let"
          [] x = "this" -> "This"
          [] x = "extends" -> "Extends"
          [] x = "fn" -> "Fn"
          [] x = "class" -> "Class"]

(***************************************************************************)
(* Scanner helpers.  Each takes the cursor it reads as a parameter; the    *)
(* routines that loop return the state they leave behind:                  *)
(*   [status, current, line, toks, msg]                                    *)
(* status "ok" / "err" is the Result of the routine, "panic" an index out  *)
(* of bounds in Scanner::advance; toks are the tokens pushed (none or one),*)
(* msg the Err message.                                                    *)
(***************************************************************************)
is_at_end(cur) == cur >= Len(source)

peek(cur) == IF is_at_end(cur) THEN NUL ELSE source[cur + 1]

peek_next(cur) == IF cur + 1 >= Len(source) THEN "\n" ELSE source[cur + 2]

\* self.char_match(ch): TRUE when the character is consumed.
char_match(cur, ch) == ~is_at_end(cur) /\ peek(cur) = ch

\* self.advance() indexes source.as_bytes()[current]: out of bounds at the end.
advance_panics(cur) == cur >= Len(source)

text(a, b) == Join(SubSeq(source, a + 1, b))

Ok(cur, ln, toks) ==
    [status |-> "ok", current |-> cur, line |-> ln, toks |-> toks, msg |-> ""]

Err(cur, ln, m) ==
    [status |-> "err", current |-> cur, line |-> ln, toks |-> <<>>, msg |-> m]

Panic(cur, ln) ==
    [status |-> "panic", current |-> cur, line |-> ln, toks |-> <<>>, msg |-> ""]

add_token_literal(st, cur, ln, tt, lit) ==
    Ok(cur, ln, <<Token(tt, text(st, cur), lit, ln)>>)

add_token(st, cur, ln, tt) == add_token_literal(st, cur, ln, tt, None)

\* Exception::throw
throw(message, ln) == "Error at line " \o ToString(ln) \o ": " \o message


(***************************************************************************)
(* Scanner::number.  str::parse::<f64> is modelled by the exact decimal    *)
(* value of the lexeme: leading zeros of the integer part and trailing     *)
(* zeros of the fraction do not change it.                                 *)
(***************************************************************************)
DigitVal(d) ==
    CASE d = "0" -> 0 [] d = "1" -> 1 [] d = "2" -> 2 [] d = "3" -> 3
      [] d = "4" -> 4 [] d = "5" -> 5 [] d = "6" -> 6 [] d = "7" -> 7
      [] d = "8" -> 8 [] d = "9" -> 9

RECURSIVE NatOfDigits(_)
NatOfDigits(ds) ==
    IF ds = <<>> THEN 0
    ELSE 10 * NatOfDigits(SubSeq(ds, 1, Len(ds) - 1)) + DigitVal(ds[Len(ds)])

RECURSIVE StripTrailingZeros(_)
StripTrailingZeros(ds) ==
    IF ds # <<>> /\ ds[Len(ds)] = "0"
    THEN StripTrailingZeros(SubSeq(ds, 1, Len(ds) - 1))
    ELSE ds

\* The position of the '.' in a numeric lexeme, or Len + 1 when it has none.
DotIndex(cs) ==
    IF \E i \in 1..Len(cs) : cs[i] = "."
    THEN CHOOSE i \in 1..Len(cs) : cs[i] = "."
    ELSE Len(cs) + 1

parse_f64(cs) ==
    FloatValue(NatOfDigits(SubSeq(cs, 1, DotIndex(cs) - 1)),
               Join(StripTrailingZeros(SubSeq(cs, DotIndex(cs) + 1, Len(cs)))))

\* while is_digit(self.peek()) { self.advance(); }
RECURSIVE skip_digits(_)
skip_digits(cur) == IF is_digit(peek(cur)) THEN skip_digits(cur + 1) ELSE cur

number_end(cur) ==
    LET c1 == skip_digits(cur)
    IN  IF peek(c1) = "." /\ is_digit(peek_next(c1))
        THEN skip_digits(c1 + 1)
        ELSE c1

\* Mutant of number: the Number token carries no payload.
number_without_payload(st, cur, ln) ==
    add_token(st, number_end(cur), ln, "Number")

number(st, cur, ln) ==
    LET e == number_end(cur)
    IN  add_token_literal(st, e, ln, "Number",
                          parse_f64(SubSeq(source, st + 1, e)))

(***************************************************************************)
(* Scanner::single_line_comment and Scanner::multi_line_comment.           *)
(***************************************************************************)
\* while ! self.char_match('\n') { self.advance(); }
RECURSIVE single_line_comment(_, _)
single_line_comment(cur, ln) ==
    IF char_match(cur, "\n") THEN Ok(cur + 1, ln, <<>>)
    ELSE IF advance_panics(cur) THEN Panic(cur, ln)
    ELSE single_line_comment(cur + 1, ln)

\* The two advance() calls after the loop of multi_line_comment.
advance_twice(cur, ln) ==
    IF advance_panics(cur) THEN Panic(cur, ln)
    ELSE IF advance_panics(cur + 1) THEN Panic(cur + 1, ln)
    ELSE Ok(cur + 2, ln, <<>>)

\* while self.peek() != '*' && self.peek_next() != '/' { self.advance(); }
RECURSIVE multi_line_comment(_, _)
multi_line_comment(cur, ln) ==
    IF peek(cur) # "*" /\ peek_next(cur) # "/"
    THEN IF advance_panics(cur) THEN Panic(cur, ln)
         ELSE multi_line_comment(cur + 1, ln)
    ELSE advance_twice(cur, ln)

(***************************************************************************)
(* Scanner::string.                                                        *)
(***************************************************************************)
\* The loop of string(): the cursor and the line it ends with.
RECURSIVE string_body(_, _)
string_body(cur, ln) ==
    IF peek(cur) # "\"" /\ ~is_at_end(cur)
    THEN string_body(cur + 1, IF peek(cur) = "\n" THEN ln + 1 ELSE ln)
    ELSE [current |-> cur, line |-> ln]

\* Mutant of string_close: the end of input is not checked, and the text
\* read so far becomes a String token.
string_close_unchecked(st, cur, ln) ==
    add_token_literal(st, cur, ln, "String", StringValue(text(st + 1, cur)))

string_close(st, cur, ln) ==
    IF is_at_end(cur)
    THEN Err(cur, ln, throw("Unterminated string", ln))
    ELSE add_token_literal(st, cur + 1, ln, "String",
                           StringValue(text(st + 1, cur)))

\* Mutant of string: the newlines inside the literal are not counted.
string_on_one_line(st, cur, ln) ==
    string_close(st, string_body(cur, ln).current, ln)

string(st, cur, ln) ==
    LET b == string_body(cur, ln)
    IN  string_close(st, b.current, b.line)

(***************************************************************************)
(* Scanner::identifier.                                                    *)
(***************************************************************************)
\* while is_alpha_numeric(self.peek()) { self.advance(); }
RECURSIVE skip_alpha_numeric(_)
skip_alpha_numeric(cur) ==
    IF is_alpha_numeric(peek(cur)) THEN skip_alpha_numeric(cur + 1) ELSE cur

\* Mutant of identifier_type: the keyword table is not consulted.
identifier_type_no_lookup(substring) == "Identifier"

identifier_type(substring) ==
    IF substring \in DOMAIN keywords THEN keywords[substring] ELSE "Identifier"

identifier(st, cur, ln) ==
    LET e == skip_alpha_numeric(cur)
    IN  add_token(st, e, ln, identifier_type(text(st, e)))

(***************************************************************************)
(* Scanner::scan_token, entered with start = current = st, st < Len(source)*)
(***************************************************************************)
SingleCharTokens ==
    [x \in {"(", ")", "{", "}", ",", ".", "-", "+", ";", "*"} |->
        CASE x = "(" -> "LeftParen"
          [] x = ")" -> "RightParen"
          [] x = "{" -> "LeftBrace"
          [] x = "}" -> "RightBrace"
          [] x = "," -> "Comma"
          [] x = "." -> "Dot"
          [] x = "-" -> "Minus"
          [] x = "+" -> "Plus"
          [] x = ";" -> "Semicolon"
          [] x = "*" -> "Star"]

\* The arms '!', '=', '<', '>': [one-character kind, kind when '=' follows].
LookaheadTokens ==
    [x \in {"!", "=", "<", ">"} |->
        CASE x = "!" -> <<"Bang", "BangEqual">>
          [] x = "=" -> <<"Equal", "EqualEqual">>
          [] x = "<" -> <<"Less", "LessEqual">>
          [] x = ">" -> <<"Greater", "GreaterEqual">>]

\* Mutant of lookahead_token: the next character is never looked at.
lookahead_token_single(st, cur, ln, c) ==
    add_token(st, cur, ln, LookaheadTokens[c][1])

lookahead_token(st, cur, ln, c) ==
    IF char_match(cur, "=")
    THEN add_token(st, cur + 1, ln, LookaheadTokens[c][2])
    ELSE add_token(st, cur, ln, LookaheadTokens[c][1])

slash(st, cur, ln) ==
    IF char_match(cur, "/") THEN single_line_comment(cur + 1, ln)
    ELSE IF char_match(cur, "*") THEN multi_line_comment(cur + 1, ln)
    ELSE add_token(st, cur, ln, "Slash")

unrecognizable(cur, ln) ==
    Err(cur, ln, "Unrecognizable token at line " \o ToString(ln))

scan_token(st, ln) ==
    LET c == source[st + 1]       \* let c = self.advance()
        cur == st + 1
    IN  CASE c \in DOMAIN SingleCharTokens ->
                add_token(st, cur, ln, SingleCharTokens[c])
          [] c \in DOMAIN LookaheadTokens -> lookahead_token(st, cur, ln, c)
          [] c = "/" -> slash(st, cur, ln)
          [] c \in {" ", "\r", "\t"} -> Ok(cur, ln, <<>>)
          [] c = "\n" -> Ok(cur, ln + 1, <<>>)
          [] c = "\"" -> string(st, cur, ln)
          [] OTHER ->
                IF is_digit(c) THEN number(st, cur, ln)
                ELSE IF is_alpha(c) THEN identifier(st, cur, ln)
                ELSE unrecognizable(cur, ln)

(***************************************************************************)
(* Scanner::scan_tokens: one iteration of its loop, and what follows it.   *)
(***************************************************************************)
\* errors.iter().map(|x| { message.push_str(x); message.push_str("\n"); })
\* builds a lazy iterator that is dropped without being consumed: the
\* closure never runs and message keeps its initial value.
error_message(errs) == ""

scan_result(errs, toks) ==
    IF Len(errs) > 0
    THEN [ok |-> FALSE, message |-> error_message(errs)]
    ELSE [ok |-> TRUE, tokens |-> toks]

\* Mutant of push_eof: the Eof token is never pushed.
push_eof_never(toks) == toks

push_eof(toks) == Append(toks, EofToken)

NoResult == [ok |-> FALSE, message |-> "<none>"]

\* Mutant of loop_condition: the loop stops at the first lexical error.
loop_condition_until_error(cur, errs) == ~is_at_end(cur) /\ Len(errs) = 0

\* while ! self.is_at_end()
loop_condition(cur, errs) == ~is_at_end(cur)

ScanToken ==
    /\ pc = "scan"
    /\ loop_condition(current, errors)
    /\ LET r == scan_token(current, line)
       IN  /\ start' = current
           /\ current' = r.current
           /\ line' = r.line
           /\ tokens' = tokens \o r.toks
           /\ errors' = IF r.status = "err" THEN Append(errors, r.msg) ELSE errors
           /\ pc' = IF r.status = "panic" THEN "panic" ELSE "scan"
    /\ UNCHANGED <<source, result, parser_vars>>

ScanFinish ==
    /\ pc = "scan"
    /\ ~loop_condition(current, errors)
    /\ tokens' = push_eof(tokens)
    /\ result' = scan_result(errors, tokens')
    /\ pc' = "done"
    /\ UNCHANGED <<source, start, current, line, errors, parser_vars>>

(***************************************************************************)
(* The source texts of the model: every text of at most MaxLen characters  *)
(* over Alphabet, every word of Words followed by a suffix of Suffixes,    *)
(* texts scanned by the tests of the repository, block comments with every *)
(* body of at most MaxBody characters, and a few further texts.            *)
(***************************************************************************)
Alphabet == {"/", "*", "\n", "\"", "=", "!", "1", ".", "a", "&"}

SeqsUpTo(S, n) == UNION {[1..k -> S] : k \in 0..n}

Words ==
    { <<"a", "n", "d">>, <<"o", "r">>, <<"t", "r", "u", "e">>,
      <<"f", "a", "l", "s", "e">>, <<"n", "u", "l", "l">>, <<"i", "f">>,
      <<"e", "l", "s", "e">>, <<"r", "e", "t", "u", "r", "n">>,
      <<"p", "r", "i", "n", "t">>, <<"w", "h", "i", "l", "e">>,
      <<"f", "o", "r">>, <<"l", "e", "t">>, <<"t", "h", "i", "s">>,
      <<"e", "x", "t", "e", "n", "d", "s">>, <<"f", "n">>,
      <<"c", "l", "a", "s", "s">>, <<"&", "&">>, <<"|", "|">>,
      <<"T", "r", "u", "e">>, <<"_">>, <<"x", "1">> }

Suffixes ==
    { <<>>, <<"i", "s", "h">>, <<"i", "s", "h", " ", "i", "f">>, <<"_", "x">>, <<"1">>, <<" ", "o", "r">>,
      <<"\n", "f", "n">>, <<"=", "i", "f">>, <<"\"">>, <<"(", ")">> }

\* Texts of the tests of scanner.rs: handles_one_char_tokens,
\* handles_operators, handles_number_literals, handles_string_literals,
\* handles_string_literals_unterminated and handles_identifiers.
TestSources ==
    { <<"{", "(", "(", " ", ")", ")", "}">>,
      <<"!", " ", "!", "=", " ", "=", "=", " ", ">", "=">>,
      <<"4", "2", "0", " ", "6", "9", " ", "4", "2", "0", ".", "6", "9">>,
      <<"\"", "p", "l", "a", "t", "y", "p", "u", "s", "\"">>,
      <<"\"", "p", "l", "a", "t", "y", "p", "u", "s">>,
      <<"f", "o", "o", "_", "a", "s", "d", " ", "=", " ", "\"", "b", "a", "r",
        "\"", ";">> }

\* Further texts: a multi-line string, a numeral with leading and trailing
\* zeros, the remaining punctuation and whitespace, and comments between
\* tokens.
ExtraSources ==
    { <<"\"", "p", "l", "a", "t", "y", "\n", "p", "u", "s", "\"">>,
      <<"_", "i", "d", "1", " ", "=", " ", "0", "0", "7", ".", "5", "0", ";">>,
      <<"<", "=", "<", ">", "-", "+", ",", ".", "\t", "\r", "#">>,
      <<"1", "/", "2", "/", "/", "x", "\n", "3">>,
      <<"/", "*", " ", "c", " ", "*", "/", "1">> }

\* Block comments: `/*`, a body of at most MaxBody characters, `*/`, and a
\* tail.
MaxBody == 2

BlockComments ==
    { <<"/", "*">> \o b \o <<"*", "/">> \o t :
        b \in SeqsUpTo({"*", "/", "a", "\n"}, MaxBody), t \in {<<>>, <<"1">>} }

\* The text of tests::test_comparison of parser.rs, and a comparison of a
\* string with a numeral.
ParserTestSources ==
    { <<"1", " ", "+", " ", "2", " ", "=", "=", " ", "5", " ", "+", " ", "7">>,
      <<"\"", "a", "\"", " ", "!", "=", " ", "0", ".", "5", "0">> }

Sources ==
    SeqsUpTo(Alphabet, MaxLen) \cup {w \o x : w \in Words, x \in Suffixes}
        \cup TestSources \cup ExtraSources \cup BlockComments
        \cup ParserTestSources

\* Scanner::new(source)
ScannerInit ==
    /\ source \in Sources
    /\ tokens = <<>>
    /\ start = 0
    /\ current = 0
    /\ line = 1
    /\ errors = <<>>
    /\ pc = "scan"
    /\ result = NoResult

ParserIdle ==
    /\ p_tokens = <<>>
    /\ p_current = 0
    /\ p_pc = "idle"
    /\ p_result = NoResult
    /\ p_printed = ""

Init == ScannerInit /\ ParserIdle

(***************************************************************************)
(* The AST (src/src/expr.rs).                                              *)
(***************************************************************************)
Binary(l, op, r) == [node |-> "Binary", left |-> l, operator |-> op, right |-> r]

Grouping(e) == [node |-> "Grouping", expression |-> e]

Literal(v) == [node |-> "Literal", value |-> v]

Unary(op, r) == [node |-> "Unary", operator |-> op, right |-> r]

\* unwrap_as_f32 and unwrap_as_string panic on None and on a payload of
\* another shape.
from_token_panics(token) ==
    CASE token.token_type = "Number" ->
            token.literal.tag \notin {"FloatValue", "IntegerValue"}
      [] token.token_type = "String" ->
            token.literal.tag \notin {"StringValue", "IdentifierValue"}
      [] token.token_type \in {"False", "True", "Null"} -> FALSE
      [] OTHER -> TRUE

\* `x as f32` keeps the decimal value of the payload: exact for the short
\* numerals of the model (at most six significant digits).
unwrap_as_f32(lit) ==
    IF lit.tag = "FloatValue"
    THEN [tag |-> "Number", int |-> lit.int, frac |-> lit.frac]
    ELSE [tag |-> "Number", int |-> lit.int, frac |-> ""]

unwrap_as_string(lit) == [tag |-> "StringValue", str |-> lit.str]

\* ExpressionLiteralValue::from_token, where it does not panic.
from_token(token) ==
    CASE token.token_type = "Number" -> unwrap_as_f32(token.literal)
      [] token.token_type = "String" -> unwrap_as_string(token.literal)
      [] token.token_type = "False" -> [tag |-> "False"]
      [] token.token_type = "True" -> [tag |-> "True"]
      [] token.token_type = "Null" -> [tag |-> "Null"]

\* ExpressionLiteralValue::to_string; f32::to_string prints an integral
\* value without a fraction and any other value in shortest decimal form.
literal_to_string(v) ==
    CASE v.tag = "Number" ->
            IF v.frac = "" THEN ToString(v.int)
            ELSE ToString(v.int) \o "." \o v.frac
      [] v.tag = "StringValue" -> v.str
      [] v.tag = "True" -> "true"
      [] v.tag = "False" -> "false"
      [] v.tag = "Null" -> "null"

\* Expr::to_string
RECURSIVE to_string(_)
to_string(e) ==
    CASE e.node = "Binary" ->
            "(" \o e.operator.lexeme \o " " \o to_string(e.left) \o " "
                \o to_string(e.right) \o ")"
      [] e.node = "Grouping" -> "(group " \o to_string(e.expression) \o ")"
      [] e.node = "Literal" -> literal_to_string(e.value)
      [] e.node = "Unary" ->
            "(" \o e.operator.lexeme \o " " \o to_string(e.right) \o ")"

(***************************************************************************)
(* The Parser (src/src/parser.rs).  Each routine takes the cursor and      *)
(* returns [status, expr, message, current]: status "ok" / "err" is its    *)
(* Result, "panic" an unwrap of None (tokens.get out of range) or a panic  *)
(* of the literal conversion.                                              *)
(***************************************************************************)
NoExpr == [node |-> "None"]

POk(e, cur) == [status |-> "ok", expr |-> e, message |-> "", current |-> cur]

PErr(m, cur) == [status |-> "err", expr |-> NoExpr, message |-> m, current |-> cur]

PPanic(cur) == [status |-> "panic", expr |-> NoExpr, message |-> "", current |-> cur]

\* self.tokens.get(i).unwrap() panics unless 0 <= i < len.
get_panics(i) == i >= Len(p_tokens)

p_peek(cur) == p_tokens[cur + 1]

\* self.previous(), for a cursor > 0.
previous(cur) == p_tokens[cur]

p_is_at_end(cur) == p_peek(cur).token_type = "Eof"

check(cur, tt) == IF p_is_at_end(cur) THEN FALSE ELSE p_peek(cur).token_type = tt

\* match_token_type(types): TRUE when the current token is consumed.
match_token_type(cur, types) == \E tt \in types : check(cur, tt)

\* The cursor after self.advance().
p_advance(cur) == IF ~p_is_at_end(cur) THEN cur + 1 ELSE cur

\* consume_token: its Result.
consume_token(cur, tt, message) ==
    IF p_peek(cur).token_type # tt THEN PErr(message, cur)
    ELSE POk(NoExpr, p_advance(cur))

\* The Grouping arm of primary, after `let expr = self.expression()?`: the
\* Result of consume_token is dropped (no `?`), so only its cursor is kept.
group(inner) ==
    IF inner.status # "ok" THEN inner
    ELSE IF get_panics(inner.current) THEN PPanic(inner.current)
    ELSE POk(Grouping(inner.expr),
             consume_token(inner.current, "RightParen", "Expected ')'").current)

\* The literal arm of primary.
literal_primary(token, cur) ==
    IF from_token_panics(token) THEN PPanic(p_advance(cur))
    ELSE POk(Literal(from_token(token)), p_advance(cur))

\* Mutant of level_operators: term matches * and /, factor matches + and -.
level_operators_swapped ==
    << {"BangEqual", "EqualEqual"},
       {"Greater", "GreaterEqual", "Less", "LessEqual"},
       {"Slash", "Star"},
       {"Minus", "Plus"} >>

\* The operator kinds matched by equality, comparison, term and factor.
level_operators ==
    << {"BangEqual", "EqualEqual"},
       {"Greater", "GreaterEqual", "Less", "LessEqual"},
       {"Minus", "Plus"},
       {"Slash", "Star"} >>

RECURSIVE expression(_), equality(_), comparison(_), term(_), factor(_),
          unary(_), primary(_), operand(_, _), binary(_, _),
          binary_first(_, _), binary_loop(_, _, _), binary_fold(_, _, _, _)

primary(cur) ==
    IF get_panics(cur) THEN PPanic(cur)
    ELSE LET token == p_peek(cur)
         IN  CASE token.token_type = "LeftParen" ->
                     group(expression(p_advance(cur)))
               [] token.token_type \in {"False", "True", "Null", "Number", "String"} ->
                     literal_primary(token, cur)
               [] OTHER -> PErr("Expected expression", cur)

\* Ok(Unary { operator, right: self.unary()? })
unary_node(operator, right) ==
    IF right.status # "ok" THEN right
    ELSE POk(Unary(operator, right.expr), right.current)

unary(cur) ==
    IF get_panics(cur) THEN PPanic(cur)
    ELSE IF match_token_type(cur, {"Bang", "Minus"})
    THEN unary_node(previous(cur + 1), unary(cur + 1))
    ELSE primary(cur)

\* The next-higher-precedence routine that level `level` calls for its
\* operands: equality calls comparison, comparison term, term factor and
\* factor unary.
operand(level, cur) ==
    CASE level = 1 -> comparison(cur)
      [] level = 2 -> term(cur)
      [] level = 3 -> factor(cur)
      [] level = 4 -> unary(cur)

\* Mutant of binary_fold: the operands of the new node are exchanged.
binary_fold_swapped(level, expr, operator, right) ==
    IF right.status # "ok" THEN right
    ELSE binary_loop(level, Binary(right.expr, operator, expr), right.current)

\* Mutant of binary_fold: a failed right operand ends the loop with the tree
\* built so far.
binary_fold_dropping_error(level, expr, operator, right) ==
    IF right.status # "ok" THEN POk(expr, right.current)
    ELSE binary_loop(level, Binary(expr, operator, right.expr), right.current)

\* expr = Binary { left: expr, operator, right: <operand>? }, then the loop
\* again.
binary_fold(level, expr, operator, right) ==
    IF right.status # "ok" THEN right
    ELSE binary_loop(level, Binary(expr, operator, right.expr), right.current)

\* while self.match_token_type(<operators of the level>) { ... } Ok(expr)
binary_loop(level, expr, cur) ==
    IF get_panics(cur) THEN PPanic(cur)
    ELSE IF match_token_type(cur, level_operators[level])
    THEN binary_fold(level, expr, previous(cur + 1), operand(level, cur + 1))
    ELSE POk(expr, cur)

\* let mut expr = <operand>?, then the loop.
binary_first(level, first) ==
    IF first.status # "ok" THEN first
    ELSE binary_loop(level, first.expr, first.current)

\* The common body of equality, comparison, term and factor.
binary(level, cur) == binary_first(level, operand(level, cur))

factor(cur) == binary(4, cur)

term(cur) == binary(3, cur)

comparison(cur) == binary(2, cur)

equality(cur) == binary(1, cur)

expression(cur) == equality(cur)

\* Mutant of parse: a token other than Eof after the expression is an error.
parse_to_eof(cur) ==
    IF expression(cur).status = "ok" /\ ~p_is_at_end(expression(cur).current)
    THEN PErr("Expected end of input", expression(cur).current)
    ELSE expression(cur)

parse(cur) == expression(cur)

\* The Result<Expr, String> that parse hands to its caller.
parse_result(r) ==
    IF r.status = "ok" THEN [ok |-> TRUE, expr |-> r.expr]
    ELSE [ok |-> FALSE, message |-> r.message]

Parse ==
    /\ p_pc = "ready"
    /\ LET r == parse(p_current)
       IN  /\ p_current' = r.current
           /\ p_pc' = IF r.status = "panic" THEN "panic" ELSE "done"
           /\ p_result' = IF r.status = "panic" THEN p_result ELSE parse_result(r)
    /\ UNCHANGED <<p_tokens, p_printed, scanner_vars>>

\* parsed_expression.to_string(), as the tests of the parser call it.
ToStringTree ==
    /\ p_pc = "done"
    /\ p_result.ok
    /\ p_printed' = to_string(p_result.expr)
    /\ p_pc' = "printed"
    /\ UNCHANGED <<p_tokens, p_current, p_result, scanner_vars>>

(***************************************************************************)
(* Parser::synchronize.  No routine of the parser calls it; it is modelled *)
(* as a call made at the cursor that parse has left.                       *)
(***************************************************************************)
StatementKeywords ==
    {"Class", "Fn", "Let", "For", "If", "While", "Print", "Return"}

\* self.advance() returns self.previous(), which panics when the cursor is
\* still 0: tokens.get(current - 1).unwrap().
advance_underflows(cur) == p_advance(cur) = 0

\* One iteration of `while ! self.is_at_end() { .. }`: the loop ends, the
\* body returns, or the body falls through; nothing in it moves the cursor.
sync_iteration(cur) ==
    IF get_panics(cur) THEN "panic"
    ELSE IF p_is_at_end(cur) THEN "return"
    ELSE IF previous(cur).token_type = "Semicolon" THEN "return"
    ELSE IF p_peek(cur).token_type \in StatementKeywords THEN "return"
    ELSE "continue"

\* synchronize is entered: self.advance().
Synchronize ==
    /\ p_pc = "done"
    /\ IF get_panics(p_current) \/ advance_underflows(p_current)
       THEN p_pc' = "panic" /\ p_current' = p_current
       ELSE p_pc' = "sync" /\ p_current' = p_advance(p_current)
    /\ UNCHANGED <<p_tokens, p_result, p_printed, scanner_vars>>

\* The loop of synchronize runs one iteration.
SyncIterate ==
    /\ p_pc = "sync"
    /\ p_pc' = CASE sync_iteration(p_current) = "return" -> "synced"
                 [] sync_iteration(p_current) = "panic" -> "panic"
                 [] OTHER -> "sync"
    /\ UNCHANGED <<p_tokens, p_current, p_result, p_printed, scanner_vars>>

(***************************************************************************)
(* The token sequences of the parser's model: every sequence of at most    *)
(* MaxTokens tokens of TokenPool followed by Eof, every 'a op1 b op2 c',   *)
(* every chain of at most MaxChain binary operators of one precedence      *)
(* level, every chain of at most MaxChain prefix operators, statements of  *)
(* at most MaxTokens tokens, and the sequences parsed by the tests of the  *)
(* repository.                                                             *)
(***************************************************************************)
MaxTokens == 4

MaxChain == 3

OperatorLexeme ==
    [x \in {"BangEqual", "EqualEqual", "Greater", "GreaterEqual", "Less",
            "LessEqual", "Minus", "Plus", "Slash", "Star", "Bang",
            "LeftParen", "RightParen", "Semicolon"} |->
        CASE x = "BangEqual" -> "!=" [] x = "EqualEqual" -> "=="
          [] x = "Greater" -> ">" [] x = "GreaterEqual" -> ">="
          [] x = "Less" -> "<" [] x = "LessEqual" -> "<="
          [] x = "Minus" -> "-" [] x = "Plus" -> "+" [] x = "Slash" -> "/"
          [] x = "Star" -> "*" [] x = "Bang" -> "!" [] x = "LeftParen" -> "("
          [] x = "RightParen" -> ")" [] x = "Semicolon" -> ";"]

OperatorToken(kind) == Token(kind, OperatorLexeme[kind], None, 1)

NumberToken(n) == Token("Number", ToString(n), FloatValue(n, ""), 1)

TrueToken == Token("True", "true", None, 1)

TokenPool ==
    {NumberToken(1), TrueToken} \cup
    {OperatorToken(k) : k \in {"Plus", "Minus", "Star", "EqualEqual", "Bang",
                               "LeftParen", "RightParen", "Semicolon"}}

\* The precedence levels of the binary operators as the grammar of the
\* language states them, lowest first.
Levels ==
    << {"BangEqual", "EqualEqual"},
       {"Greater", "GreaterEqual", "Less", "LessEqual"},
       {"Minus", "Plus"},
       {"Slash", "Star"} >>

BinaryOperators == UNION {Levels[i] : i \in 1..Len(Levels)}

PrecedenceSeqs ==
    { <<NumberToken(1), OperatorToken(op1), NumberToken(2), OperatorToken(op2),
        NumberToken(3), EofToken>> : op1 \in BinaryOperators, op2 \in BinaryOperators }

\* 1 ops[1] 2 ops[2] 3 ... Eof
BinaryChain(ops) ==
    [i \in 1..(2 * Len(ops) + 2) |->
        IF i = 2 * Len(ops) + 2 THEN EofToken
        ELSE IF i % 2 = 1 THEN NumberToken((i + 1) \div 2)
        ELSE OperatorToken(ops[i \div 2])]

\* ops[1] ops[2] ... 5 Eof
UnaryChain(ops) ==
    [i \in 1..(Len(ops) + 2) |->
        IF i = Len(ops) + 2 THEN EofToken
        ELSE IF i = Len(ops) + 1 THEN NumberToken(5)
        ELSE OperatorToken(ops[i])]

BinaryChains ==
    UNION { {BinaryChain(ops) : ops \in [1..k -> Levels[l]]} :
                k \in 1..MaxChain, l \in 1..Len(Levels) }

UnaryChains ==
    UNION { {UnaryChain(ops) : ops \in [1..k -> {"Bang", "Minus"}]} :
                k \in 1..MaxChain }

ChainSeqs == BinaryChains \cup UnaryChains

\* The tokens of "1 + 2 == 5 + 7" (tests::test_comparison), and the four
\* tokens of tests::test_addition, which carry IntegerValue payloads and no
\* Eof.
TestTokenSeqs ==
    { <<NumberToken(1), OperatorToken("Plus"), NumberToken(2),
        OperatorToken("EqualEqual"), NumberToken(5), OperatorToken("Plus"),
        NumberToken(7), EofToken>>,
      <<Token("Number", "1", IntegerValue(1), 0),
        Token("Plus", "+", None, 0),
        Token("Number", "2", IntegerValue(2), 0),
        Token("Number", "2", IntegerValue(2), 0)>> }

\* The tokens of "1 + 2 2": an expression and a token that cannot continue
\* it.
TrailingTokenSeqs ==
    { <<NumberToken(1), OperatorToken("Plus"), NumberToken(2), NumberToken(2),
        EofToken>> }

LetToken == Token("Let", "let", None, 1)

\* Statements: numerals, semicolons, a statement keyword and an operator.
StatementSeqs ==
    { Append(ts, EofToken) :
        ts \in SeqsUpTo({NumberToken(1), OperatorToken("Semicolon"), LetToken,
                         OperatorToken("Bang")}, MaxTokens) }

ParserInputs ==
    {Append(ts, EofToken) : ts \in SeqsUpTo(TokenPool, MaxTokens)}
        \cup PrecedenceSeqs \cup ChainSeqs \cup TestTokenSeqs
        \cup TrailingTokenSeqs \cup StatementSeqs

ScannerIdle ==
    /\ source = <<>>
    /\ tokens = <<>>
    /\ start = 0
    /\ current = 0
    /\ line = 1
    /\ errors = <<>>
    /\ pc = "idle"
    /\ result = NoResult

\* Parser::new(tokens)
ParserInit ==
    /\ p_tokens \in ParserInputs
    /\ p_current = 0
    /\ p_pc = "ready"
    /\ p_result = NoResult
    /\ p_printed = ""

\* Parser::new(scanner.scan_tokens().unwrap()): the parser is built on the
\* tokens of a scan that returned Ok.
NewParser ==
    /\ pc = "done"
    /\ result.ok
    /\ p_pc = "idle"
    /\ p_tokens' = result.tokens
    /\ p_current' = 0
    /\ p_pc' = "ready"
    /\ UNCHANGED <<p_result, p_printed, scanner_vars>>

\* A source is scanned; when the scan returns Ok, its tokens are parsed and
\* the tree is printed.
Next == ScanToken \/ ScanFinish \/ NewParser \/ Parse \/ ToStringTree

Spec == Init /\ [][Next]_vars

ParserSpecInit == ScannerIdle /\ ParserInit

ParserNext == Parse \/ ToStringTree \/ Synchronize \/ SyncIterate

ParserSpec == ParserSpecInit /\ [][ParserNext]_vars

(***************************************************************************)
(* Properties of the scanner.                                              *)
(***************************************************************************)
KindsOf(toks) == [i \in 1..Len(toks) |-> toks[i].token_type]

EofCount(toks) == Cardinality({i \in 1..Len(toks) : toks[i].token_type = "Eof"})

\* The token pushed by the last scan_token step (the Eof follows it once
\* scan_tokens has returned).
LastScanned == IF pc = "done" THEN tokens[Len(tokens) - 1] ELSE tokens[Len(tokens)]

\* A scan_token step has run, and scan_tokens has not panicked.
Stepped == pc \in {"scan", "done"} /\ current > start

\* C1: when scan_tokens has returned, the token sequence it built ends with
\* an Eof token and holds exactly one Eof token; for the empty source it is
\* exactly [Eof].
C1_EndsWithOneEof ==
    pc = "done" =>
        /\ Len(tokens) >= 1
        /\ tokens[Len(tokens)].token_type = "Eof"
        /\ EofCount(tokens) = 1
        /\ (source = <<>> => KindsOf(tokens) = <<"Eof">>)

C1_Witness ==
    /\ pc = "done"
    /\ Len(source) >= 2
    /\ Len(tokens) >= 3
    /\ ~result.ok

\* The characters scan_token accepts outside strings and comments.
Recognized ==
    {"(", ")", "{", "}", ",", ".", "-", "+", ";", "*", "!", "=", "<", ">",
     "/", " ", "\r", "\t", "\n", "\""} \cup Digits \cup Lower \cup Upper \cup {"_"}

NoSlashNoQuote == \A i \in 1..Len(source) : source[i] \notin {"/", "\""}

\* C2: scan_tokens does not stop at the first lexical error: it returns only
\* when the whole source is consumed, it returns Err exactly when a
\* scan_token step failed, an Err carries no token sequence, and Ok carries
\* the full one. In a source without strings and comments each
\* unrecognizable character is one failed step.
C2_CollectsThenFails ==
    pc = "done" =>
        /\ current = Len(source)
        /\ result.ok <=> (Len(errors) = 0)
        /\ result.ok => result.tokens = tokens
        /\ ~result.ok => "tokens" \notin DOMAIN result
        /\ NoSlashNoQuote =>
              Len(errors) =
                  Cardinality({i \in 1..Len(source) : source[i] \notin Recognized})

C2_Witness ==
    /\ pc = "done"
    /\ source = <<"&", "1", "&", "a">>
    /\ Len(errors) = 2
    /\ KindsOf(tokens) = <<"Number", "Identifier", "Eof">>
    /\ ~result.ok

RECURSIVE JoinLines(_)
JoinLines(msgs) ==
    IF msgs = <<>> THEN "" ELSE Head(msgs) \o "\n" \o JoinLines(Tail(msgs))

\* C3: when lexical errors occurred, the Err value of scan_tokens carries all
\* collected messages in order, each followed by a newline.
C3_MessageCarriesAllErrors ==
    (pc = "done" /\ Len(errors) > 0) =>
        /\ ~result.ok
        /\ result.message = JoinLines(errors)

NoQuoteFrom(i) == \A j \in i..Len(source) : source[j] # "\""

\* The last scan_token step began on a double-quote that no later
\* double-quote closes.
ScannedUnterminatedString ==
    /\ Stepped
    /\ source[start + 1] = "\""
    /\ NoQuoteFrom(start + 2)

\* C4: an unterminated string literal makes scan_tokens return Err, and no
\* String token is emitted for it.
C4_UnterminatedStringFails ==
    ScannedUnterminatedString =>
        /\ current = Len(source)
        /\ Len(errors) > 0
        /\ \A i \in 1..Len(tokens) :
              tokens[i].token_type = "String" =>
                  tokens[i].lexeme # text(start, Len(source))
        /\ pc = "done" => ~result.ok

C4_Witness ==
    /\ pc = "done"
    /\ ScannedUnterminatedString
    /\ start > 0
    /\ Len(source) > start + 1
    /\ Len(tokens) >= 2

WordChars == Lower \cup Upper \cup Digits \cup {"_"}

\* The length of the maximal run of word characters that starts at byte st.
RunLen(st) ==
    CHOOSE k \in 0..(Len(source) - st) :
        /\ \A j \in 1..k : source[st + j] \in WordChars
        /\ (st + k < Len(source) => source[st + k + 1] \notin WordChars)

ReservedKind ==
    [x \in {"true", "false", "null", "if", "else", "for", "while", "let",
            "print", "return", "this", "extends", "fn", "class", "and", "or"} |->
        CASE x = "true" -> "True" [] x = "false" -> "False"
          [] x = "null" -> "Null" [] x = "if" -> "If" [] x = "else" -> "Else"
          [] x = "for" -> "For" [] x = "while" -> "While" [] x = "let" -> "Let"
          [] x = "print" -> "Print" [] x = "return" -> "Return"
          [] x = "this" -> "This" [] x = "extends" -> "Extends"
          [] x = "fn" -> "Fn" [] x = "class" -> "Class" [] x = "and" -> "And"
          [] x = "or" -> "Or"]

\* The last scan_token step began on a letter or an underscore.
ScannedWord == Stepped /\ source[start + 1] \in (WordChars \ Digits)

\* C5: a maximal run of word characters that starts with a letter or an
\* underscore scans to one token: the reserved kind when the whole run is a
\* reserved word, Identifier otherwise.
C5_KeywordOrIdentifier ==
    ScannedWord =>
        LET run == Join(SubSeq(source, start + 1, start + RunLen(start)))
        IN  /\ current = start + RunLen(start)
            /\ Len(tokens) >= 1
            /\ LastScanned.lexeme = run
            /\ LastScanned.token_type =
                  IF run \in DOMAIN ReservedKind THEN ReservedKind[run]
                  ELSE "Identifier"

C5_Witness ==
    /\ pc = "done"
    /\ source = <<"t", "r", "u", "e", "i", "s", "h", " ", "i", "f">>
    /\ KindsOf(tokens) = <<"Identifier", "If", "Eof">>

\* C6: scanning '&&' yields And, Eof and scanning '||' yields Or, Eof.
C6_SymbolAliases ==
    pc = "done" =>
        /\ source = <<"&", "&">> =>
              (result.ok /\ KindsOf(tokens) = <<"And", "Eof">>)
        /\ source = <<"|", "|">> =>
              (result.ok /\ KindsOf(tokens) = <<"Or", "Eof">>)

(***************************************************************************)
(* Properties of the parser.                                               *)
(***************************************************************************)
Parsed == p_pc \in {"done", "printed"}

EofTerminated ==
    /\ Len(p_tokens) >= 1
    /\ \A i \in 1..Len(p_tokens) :
          (p_tokens[i].token_type = "Eof") <=> (i = Len(p_tokens))

LiteralKinds == {"True", "False", "Null", "Number", "String"}

KindAt(i) == p_tokens[i].token_type

\* The Literal node of the literal token at position i.
LiteralAt(i) == Literal(from_token(p_tokens[i]))

LexemesOf(toks) == [i \in 1..Len(toks) |-> toks[i].lexeme]

LevelOf(kind) == CHOOSE l \in 1..Len(Levels) : kind \in Levels[l]

\* The tokens are 'a op1 b op2 c Eof' with literal operands.
TwoOperatorShape ==
    /\ Len(p_tokens) = 6
    /\ EofTerminated
    /\ \A i \in {1, 3, 5} : KindAt(i) \in LiteralKinds
    /\ \A i \in {2, 4} : KindAt(i) \in BinaryOperators

\* C7: for 'a op1 b op2 c', when op2 is on a higher precedence level than
\* op1 parse returns Binary(op1, a, Binary(op2, b, c)), and when op1 is on
\* the higher level it returns Binary(op2, Binary(op1, a, b), c);
\* '1 + 2 == 5 + 7' prints as '(== (+ 1 2) (+ 5 7))'.
C7_PrecedenceShapesTree ==
    /\ (Parsed /\ TwoOperatorShape /\ LevelOf(KindAt(4)) > LevelOf(KindAt(2))) =>
          /\ p_result.ok
          /\ p_result.expr =
                Binary(LiteralAt(1), p_tokens[2],
                       Binary(LiteralAt(3), p_tokens[4], LiteralAt(5)))
    /\ (Parsed /\ TwoOperatorShape /\ LevelOf(KindAt(2)) > LevelOf(KindAt(4))) =>
          /\ p_result.ok
          /\ p_result.expr =
                Binary(Binary(LiteralAt(1), p_tokens[2], LiteralAt(3)),
                       p_tokens[4], LiteralAt(5))
    /\ (p_pc = "printed"
          /\ LexemesOf(p_tokens) = <<"1", "+", "2", "==", "5", "+", "7", "">>) =>
          p_printed = "(== (+ 1 2) (+ 5 7))"

C7_Witness ==
    /\ p_pc = "printed"
    /\ TwoOperatorShape
    /\ p_printed = "(< 1 (* 2 3))"

\* The tokens are 'n1 op n2 op ... Eof' with literal operands and one or
\* more binary operators, all of one precedence level.
SameLevelChain ==
    /\ Len(p_tokens) >= 4
    /\ Len(p_tokens) % 2 = 0
    /\ EofTerminated
    /\ KindAt(2) \in BinaryOperators
    /\ \A i \in 1..(Len(p_tokens) - 1) :
          IF i % 2 = 1 THEN KindAt(i) \in LiteralKinds
          ELSE KindAt(i) \in Levels[LevelOf(KindAt(2))]

\* The left-leaning tree of the first k operators of the chain.
RECURSIVE LeftTree(_)
LeftTree(k) ==
    IF k = 0 THEN LiteralAt(1)
    ELSE Binary(LeftTree(k - 1), p_tokens[2 * k], LiteralAt(2 * k + 1))

\* The tokens are one or more prefix operators, a literal and Eof.
PrefixChain ==
    /\ Len(p_tokens) >= 3
    /\ EofTerminated
    /\ KindAt(Len(p_tokens) - 1) \in LiteralKinds
    /\ \A i \in 1..(Len(p_tokens) - 2) : KindAt(i) \in {"Bang", "Minus"}

\* The right-nested tree of the prefix operators from position i on.
RECURSIVE RightTree(_)
RightTree(i) ==
    IF i = Len(p_tokens) - 1 THEN LiteralAt(i)
    ELSE Unary(p_tokens[i], RightTree(i + 1))

\* C8: a chain of binary operators of one precedence level folds into a
\* left-leaning tree, and a chain of prefix operators nests to the right
\* with one Unary node per prefix; '1 - 2 - 3' prints as '(- (- 1 2) 3)' and
\* '- - 5' as '(- (- 5))'.
C8_ChainsAssociate ==
    /\ (Parsed /\ SameLevelChain) =>
          /\ p_result.ok
          /\ p_result.expr = LeftTree((Len(p_tokens) - 2) \div 2)
    /\ (Parsed /\ PrefixChain) =>
          /\ p_result.ok
          /\ p_result.expr = RightTree(1)
    /\ (p_pc = "printed" /\ LexemesOf(p_tokens) = <<"1", "-", "2", "-", "3", "">>) =>
          p_printed = "(- (- 1 2) 3)"
    /\ (p_pc = "printed" /\ LexemesOf(p_tokens) = <<"-", "-", "5", "">>) =>
          p_printed = "(- (- 5))"

C8_Witness ==
    /\ p_pc = "printed"
    /\ SameLevelChain
    /\ p_printed = "(- (- 1 2) 3)"

\* The tokens begin '( literal X' where X neither continues the inner
\* expression nor closes the group.
UnclosedGroup ==
    /\ Len(p_tokens) >= 3
    /\ EofTerminated
    /\ KindAt(1) = "LeftParen"
    /\ KindAt(2) \in LiteralKinds
    /\ KindAt(3) \notin (BinaryOperators \cup {"RightParen"})

\* C9: when primary has consumed '(' and an inner expression and the
\* current token is not RightParen, parse returns Err("Expected ')'") and no
\* Grouping node.
C9_MissingParenIsError ==
    (Parsed /\ UnclosedGroup) =>
        /\ ~p_result.ok
        /\ p_result.message = "Expected ')'"

\* The position (1-based) of the first token that stands where an operand is
\* expected and cannot start one, or 0 when there is none: a left-to-right
\* pass that expects an operand at the start, after a prefix operator, after
\* '(' and after a binary operator, and an operator after an operand;
\* `open` counts the groups that are open.
RECURSIVE MissingOperand(_, _, _)
MissingOperand(i, expectOperand, open) ==
    IF expectOperand
    THEN CASE KindAt(i) \in {"Bang", "Minus"} -> MissingOperand(i + 1, TRUE, open)
           [] KindAt(i) = "LeftParen" -> MissingOperand(i + 1, TRUE, open + 1)
           [] KindAt(i) \in LiteralKinds -> MissingOperand(i + 1, FALSE, open)
           [] OTHER -> i
    ELSE CASE KindAt(i) \in BinaryOperators -> MissingOperand(i + 1, TRUE, open)
           [] KindAt(i) = "RightParen" /\ open > 0 ->
                 MissingOperand(i + 1, FALSE, open - 1)
           [] OTHER -> 0

\* C10: when an operand is expected and the current token cannot start one,
\* parse returns Err("Expected expression") with the cursor on that token,
\* and no tree; it returns no other error for a missing operand.
C10_ExpectedExpression ==
    (Parsed /\ EofTerminated) =>
        /\ (MissingOperand(1, TRUE, 0) # 0) <=>
              (~p_result.ok /\ p_result.message = "Expected expression")
        /\ MissingOperand(1, TRUE, 0) # 0 =>
              /\ p_current = MissingOperand(1, TRUE, 0) - 1
              /\ "expr" \notin DOMAIN p_result

C10_Witness ==
    /\ p_pc = "done"
    /\ KindsOf(p_tokens) = <<"LeftParen", "Number", "Plus", "RightParen", "Eof">>
    /\ p_current = 3
    /\ p_result = [ok |-> FALSE, message |-> "Expected expression"]

(***************************************************************************)
(* Properties of comments, operators and strings.                          *)
(***************************************************************************)
\* The characters at j and j + 1 are the closing marker of a block comment.
ClosesAt(j) == j + 1 <= Len(source) /\ source[j] = "*" /\ source[j + 1] = "/"

\* scan_token is about to scan a `/*` that a `*/` follows.
BlockCommentAhead ==
    /\ pc = "scan"
    /\ current + 2 <= Len(source)
    /\ source[current + 1] = "/"
    /\ source[current + 2] = "*"
    /\ \E j \in (current + 3)..Len(source) : ClosesAt(j)

FirstClose ==
    CHOOSE j \in (current + 3)..Len(source) :
        ClosesAt(j) /\ \A k \in (current + 3)..(j - 1) : ~ClosesAt(k)

\* C11: a block comment is consumed up to its closing marker: the step that
\* scans a `/*` which a `*/` follows pushes no token and no error, whatever
\* lies between, and leaves the cursor just after the first following `*/`.
C11_BlockCommentConsumed ==
    [][BlockCommentAhead =>
          /\ pc' = "scan"
          /\ tokens' = tokens
          /\ errors' = errors
          /\ current' = FirstClose + 1]_vars

\* scan_token is about to scan a `//` that a newline follows.
LineCommentAhead ==
    /\ pc = "scan"
    /\ current + 2 <= Len(source)
    /\ source[current + 1] = "/"
    /\ source[current + 2] = "/"
    /\ \E j \in (current + 3)..Len(source) : source[j] = "\n"

FirstNewline ==
    CHOOSE j \in (current + 3)..Len(source) :
        source[j] = "\n" /\ \A k \in (current + 3)..(j - 1) : source[k] # "\n"

\* C12: a line comment is consumed up to and not including the next
\* newline: the step that scans a `//` pushes no token and no error and
\* leaves the cursor on the terminating newline, which the next step scans.
C12_LineCommentStopsAtNewline ==
    [][LineCommentAhead =>
          /\ pc' = "scan"
          /\ tokens' = tokens
          /\ errors' = errors
          /\ line' = line
          /\ current' = FirstNewline - 1]_vars

\* The last scan_token step scanned one of the operators ! = < >.
ScannedOperator == Stepped /\ source[start + 1] \in {"!", "=", "<", ">"}

EqualsFollows == start + 2 <= Len(source) /\ source[start + 2] = "="

OneCharKind(c) ==
    CASE c = "!" -> "Bang" [] c = "=" -> "Equal"
      [] c = "<" -> "Less" [] c = ">" -> "Greater"

TwoCharKind(c) ==
    CASE c = "!" -> "BangEqual" [] c = "=" -> "EqualEqual"
      [] c = "<" -> "LessEqual" [] c = ">" -> "GreaterEqual"

\* C13: each of ! = < > is resolved with one character of lookahead: the
\* step pushes the two-character token and consumes two characters exactly
\* when the next character is '=', and otherwise pushes the one-character
\* token and consumes one; "! != == >=" scans to Bang, BangEqual,
\* EqualEqual, GreaterEqual, Eof and "===" to EqualEqual, Equal, Eof.
C13_OperatorLookahead ==
    /\ ScannedOperator =>
          IF EqualsFollows
          THEN /\ current = start + 2
               /\ LastScanned.token_type = TwoCharKind(source[start + 1])
               /\ LastScanned.lexeme = source[start + 1] \o "="
          ELSE /\ current = start + 1
               /\ LastScanned.token_type = OneCharKind(source[start + 1])
               /\ LastScanned.lexeme = source[start + 1]
    /\ (pc = "done" /\ source = <<"!", " ", "!", "=", " ", "=", "=", " ", ">", "=">>) =>
          KindsOf(tokens) =
              <<"Bang", "BangEqual", "EqualEqual", "GreaterEqual", "Eof">>
    /\ (pc = "done" /\ source = <<"=", "=", "=">>) =>
          KindsOf(tokens) = <<"EqualEqual", "Equal", "Eof">>

C13_Witness ==
    /\ pc = "done"
    /\ source = <<"=", "=", "=">>
    /\ result.ok
    /\ KindsOf(tokens) = <<"EqualEqual", "Equal", "Eof">>

\* scan_token is about to scan an opening quote that another quote follows.
StringAhead ==
    /\ pc = "scan"
    /\ current + 1 <= Len(source)
    /\ source[current + 1] = "\""
    /\ \E j \in (current + 2)..Len(source) : source[j] = "\""

ClosingQuote ==
    CHOOSE j \in (current + 2)..Len(source) :
        source[j] = "\"" /\ \A k \in (current + 2)..(j - 1) : source[k] # "\""

\* The number of newlines among the characters a..b of the source.
NewlinesIn(a, b) == Cardinality({k \in a..b : source[k] = "\n"})

\* C14: a terminated string literal scans, in one step, to exactly one
\* String token: its lexeme runs from the opening quote to the first
\* following quote, both included, its payload is the characters strictly
\* between them, newlines included, and the line counter grows by one for
\* each newline between the quotes.
C14_TerminatedString ==
    [][StringAhead =>
          /\ pc' = "scan"
          /\ errors' = errors
          /\ current' = ClosingQuote
          /\ line' = line + NewlinesIn(current + 2, ClosingQuote - 1)
          /\ tokens' = Append(tokens,
                Token("String",
                      Join(SubSeq(source, current + 1, ClosingQuote)),
                      StringValue(Join(SubSeq(source, current + 2,
                                              ClosingQuote - 1))),
                      line'))]_vars

C14_Witness ==
    /\ pc = "done"
    /\ source = <<"\"", "p", "l", "a", "t", "y", "\n", "p", "u", "s", "\"">>
    /\ line = 2
    /\ tokens = <<Token("String", "\"platy\npus\"", StringValue("platy\npus"), 2),
                  EofToken>>

(***************************************************************************)
(* Properties of the parser's cursor.                                      *)
(***************************************************************************)
\* The position of the first token after the leading expression of the
\* tokens: a left-to-right pass over operands and operators from position
\* i, which stops in operator position, with every group closed, on a token
\* that is neither a binary operator nor a closing parenthesis.  0 when the
\* tokens do not begin with a complete expression.
RECURSIVE LeadingEnd(_, _, _)
LeadingEnd(i, expectOperand, open) ==
    IF i > Len(p_tokens) THEN 0
    ELSE IF expectOperand
    THEN CASE KindAt(i) \in {"Bang", "Minus"} -> LeadingEnd(i + 1, TRUE, open)
           [] KindAt(i) = "LeftParen" -> LeadingEnd(i + 1, TRUE, open + 1)
           [] KindAt(i) \in LiteralKinds -> LeadingEnd(i + 1, FALSE, open)
           [] OTHER -> 0
    ELSE CASE KindAt(i) \in BinaryOperators -> LeadingEnd(i + 1, TRUE, open)
           [] KindAt(i) = "RightParen" /\ open > 0 ->
                 LeadingEnd(i + 1, FALSE, open - 1)
           [] OTHER -> IF open = 0 THEN i ELSE 0

\* C15: parse does not require the cursor to reach Eof: when the tokens
\* begin with a complete expression, parse returns Ok and leaves the cursor
\* on the first token after it, whatever that token is; the tokens of
\* "1 + 2 2" give the tree "(+ 1 2)".
C15_StopsAfterExpression ==
    (Parsed /\ LeadingEnd(1, TRUE, 0) # 0) =>
        /\ p_result.ok
        /\ p_current = LeadingEnd(1, TRUE, 0) - 1
        /\ (p_pc = "printed" /\ Len(p_tokens) >= 4
              /\ LexemesOf(SubSeq(p_tokens, 1, 4)) = <<"1", "+", "2", "2">>) =>
                 p_printed = "(+ 1 2)"

C15_Witness ==
    /\ p_pc = "printed"
    /\ LexemesOf(p_tokens) = <<"1", "+", "2", "2", "">>
    /\ KindAt(5) = "Eof"
    /\ p_result.ok
    /\ p_current = 3
    /\ p_printed = "(+ 1 2)"

(***************************************************************************)
(* Properties of the line counter.                                         *)
(***************************************************************************)
\* The 1-based line of the source on which the character at position i
\* lies.
LineOf(i) == 1 + NewlinesIn(1, i - 1)

\* C16: the "Unterminated string" error is tagged with the line on which
\* the string began: when an opening quote on line L is followed by one or
\* more newlines and no closing quote, the error pushed for it reports L.
C16_UnterminatedStringLine ==
    (ScannedUnterminatedString /\ NewlinesIn(start + 2, Len(source)) > 0) =>
        /\ Len(errors) > 0
        /\ errors[Len(errors)] =
              "Error at line " \o ToString(LineOf(start + 1)) \o
                  ": Unterminated string"

\* C17: the line counter tracks the source line: at every token boundary
\* of scan_tokens, line is 1 plus the number of newlines among the
\* characters consumed so far, whatever they are part of.
C17_LineCounterTracksSource ==
    pc \in {"scan", "done"} => line = 1 + NewlinesIn(1, current)

(***************************************************************************)
(* Properties of termination and of the bounds of the cursors.             *)
(***************************************************************************)
\* C18: for every source, scan_tokens runs to completion: no step reads
\* the source past its end, every step of the loop advances the cursor by
\* at least one character, and start <= current <= len throughout; this
\* includes a `//` that no newline follows and a `/*` that no `*/` follows.
C18_ScanRunsToCompletion ==
    /\ pc # "panic"
    /\ start <= current
    /\ current <= Len(source)
    /\ (pc = "scan" /\ current > 0) => current > start

\* The values of the Literal nodes of a tree, left to right.
RECURSIVE Leaves(_)
Leaves(e) ==
    CASE e.node = "Literal" -> <<e.value>>
      [] e.node = "Grouping" -> Leaves(e.expression)
      [] e.node = "Unary" -> Leaves(e.right)
      [] e.node = "Binary" -> Leaves(e.left) \o Leaves(e.right)

\* The payload of a token is the one of its kind.
PayloadMatches(t) ==
    CASE t.token_type = "Number" -> t.literal.tag = "FloatValue"
      [] t.token_type = "String" -> t.literal.tag = "StringValue"
      [] OTHER -> TRUE

\* The value of the Literal node of a literal token whose payload matches.
ValueOf(t) ==
    CASE t.token_type = "Number" ->
            [tag |-> "Number", int |-> t.literal.int, frac |-> t.literal.frac]
      [] t.token_type = "String" -> [tag |-> "StringValue", str |-> t.literal.str]
      [] OTHER -> [tag |-> t.token_type]

IsLiteralToken(t) == t.token_type \in LiteralKinds

\* The values of the literal tokens that parse has consumed.
ConsumedValues ==
    LET consumed == SelectSeq(SubSeq(p_tokens, 1, p_current), IsLiteralToken)
    IN  [i \in 1..Len(consumed) |-> ValueOf(consumed[i])]

\* C19: the parser never aborts on tokens that scan_tokens returned Ok:
\* every Number token of the scan carries a numeric payload and every
\* String token a string payload, parse returns Ok or Err, its cursor only
\* increases and does not pass the Eof token, and the Literal nodes of the
\* tree are the values of the literal tokens consumed, in their order.
C19_ParseNeverAborts ==
    /\ [](/\ (pc = "done" /\ result.ok) =>
                \A i \in 1..Len(tokens) : PayloadMatches(tokens[i])
          /\ p_pc # "panic"
          /\ Parsed =>
                /\ p_current <= Len(p_tokens) - 1
                /\ p_result.ok => Leaves(p_result.expr) = ConsumedValues)
    /\ [][p_current' >= p_current]_vars

C19_Witness ==
    /\ pc = "done"
    /\ source = <<"\"", "a", "\"", " ", "!", "=", " ", "0", ".", "5", "0">>
    /\ p_pc = "printed"
    /\ p_current = 3
    /\ p_tokens[4].token_type = "Eof"
    /\ Leaves(p_result.expr) =
          << [tag |-> "StringValue", str |-> "a"],
             [tag |-> "Number", int |-> 0, frac |-> "5"] >>
    /\ p_printed = "(!= a 0.5)"

\* The loop of synchronize is at an iteration that does not return and
\* leaves the cursor where it is: every later iteration is the same one.
SyncSpins == p_pc = "sync" /\ sync_iteration(p_current) = "continue"

\* C20: synchronize skips forward to the next statement boundary: on
\* Eof-terminated tokens, from the cursor it is entered at, it does not
\* abort, its loop never comes to an iteration that repeats forever, and it
\* returns with the cursor just after a Semicolon, on a statement keyword,
\* or on Eof.
C20_SynchronizeReachesBoundary ==
    EofTerminated =>
        /\ p_pc # "panic"
        /\ ~SyncSpins
        /\ p_pc = "synced" =>
              \/ p_current >= 1 /\ KindAt(p_current) = "Semicolon"
              \/ KindAt(p_current + 1) \in StatementKeywords
              \/ KindAt(p_current + 1) = "Eof"
=============================================================================
